---- MODULE Spec2Model ----
(***************************************************************************)
(* Command addressing and dispatch layer of EMS-ESP (src/src/command.cpp): *)
(* the tag resolver (Command::parse_command_string), the command registry  *)
(* (Command::add, find_command, erase_command, erase_device_commands) and  *)
(* the dispatcher (Command::call, Command::process).                       *)
(*                                                                         *)
(* C strings are sequences of ASCII codes; a null pointer is nullptr.      *)
(***************************************************************************)
EXTENDS Integers, Sequences, FiniteSets, TLC

VARIABLES cmdfunctions_, corrupt, last

vars == <<cmdfunctions_, corrupt, last>>

---------------------------------------------------------------------------
(* Characters and C strings                                                *)

\* printable ASCII, codes 32..126 (backslash, 92, and backtick, 96, written "bs" and "bt")
AsciiTable ==
    <<" ", "!", "\"", "#", "$", "%", "&", "'", "(", ")", "*", "+", ",", "-", ".", "/",
      "0", "1", "2", "3", "4", "5", "6", "7", "8", "9", ":", ";", "<", "=", ">", "?",
      "@", "A", "B", "C", "D", "E", "F", "G", "H", "I", "J", "K", "L", "M", "N", "O",
      "P", "Q", "R", "S", "T", "U", "V", "W", "X", "Y", "Z", "[", "bs", "]", "^", "_",
      "bt", "a", "b", "c", "d", "e", "f", "g", "h", "i", "j", "k", "l", "m", "n", "o",
      "p", "q", "r", "s", "t", "u", "v", "w", "x", "y", "z", "{", "|", "}", "~">>

\* the code of a character literal such as '1'
Ord(c) == 31 + (CHOOSE i \in 1..Len(AsciiTable) : AsciiTable[i] = c)

\* a string literal, written as a tuple of characters
Str(t) == [i \in 1..Len(t) |-> Ord(t[i])]

\* the character and string literals the code compares with
D0 == Ord("0")
D1 == Ord("1")
D6 == Ord("6")
D8 == Ord("8")
D9 == Ord("9")
UpperA == Ord("A")
UpperZ == Ord("Z")
Slash == Ord("/")
P_hc == Str(<<"h", "c">>)
P_dhw == Str(<<"d", "h", "w">>)
P_id == Str(<<"i", "d">>)
P_ahs == Str(<<"a", "h", "s">>)
P_hs == Str(<<"h", "s">>)

\* a null char pointer: a value no C string equals
nullptr == <<-1>>

\* s[i] of the NUL-terminated string s (0-based), the terminator at i = strlen(s)
At(s, i) == IF i < Len(s) THEN s[i + 1] ELSE 0

\* the pointer s + n
Advance(s, n) == SubSeq(s, n + 1, Len(s))

tolower(c) == IF c >= UpperA /\ c <= UpperZ THEN c + 32 ELSE c

\* Helpers::toLower, and the lower-casing loop of parse_command_string
toLower(s) == [i \in 1..Len(s) |-> tolower(s[i])]

\* !strncmp(s, p, strlen(p)) for a literal p
strncmp0(s, p) == \A i \in 0..(Len(p) - 1) : At(s, i) = p[i + 1]

---------------------------------------------------------------------------
(* DeviceValueTAG: the unified tag space                                   *)

TAG_HC1 == 1
TAG_HC8 == 8
TAG_DHW1 == 9
TAG_DHW10 == 18
TAG_AHS1 == 19
TAG_HS1 == 20
TAG_HS10 == 29
TAG_HS16 == 35

---------------------------------------------------------------------------
(* Command::parse_command_string                                           *)

\* the prefix chain with the one-digit dhw form tested before dhw10
match_prefix_dhw_order(command, lowerCmd, id) ==
    LET c(i) == At(command, i) IN
    IF strncmp0(lowerCmd, P_hc) /\ c(2) >= D1 /\ c(2) <= D8
    THEN [id |-> c(2) - D0, skip |-> 3]
    ELSE IF strncmp0(lowerCmd, P_dhw) /\ c(3) >= D1 /\ c(3) <= D9
    THEN [id |-> c(3) - D1 + TAG_DHW1, skip |-> 4]
    ELSE IF strncmp0(lowerCmd, P_dhw) /\ c(3) = D1 /\ c(4) = D0
    THEN [id |-> TAG_DHW10, skip |-> 5]
    ELSE IF strncmp0(lowerCmd, P_id) /\ c(2) = D1 /\ c(3) >= D0 /\ c(3) <= D9
    THEN [id |-> c(3) - D0 + 10, skip |-> 4]
    ELSE IF strncmp0(lowerCmd, P_id) /\ c(2) >= D1 /\ c(2) <= D9
    THEN [id |-> c(2) - D0, skip |-> 3]
    ELSE IF strncmp0(lowerCmd, P_ahs) /\ c(3) >= D1 /\ c(3) <= D1
    THEN [id |-> c(3) - D1 + TAG_AHS1, skip |-> 4]
    ELSE IF strncmp0(lowerCmd, P_hs) /\ c(2) = D1 /\ c(3) >= D0 /\ c(3) <= D6
    THEN [id |-> c(3) - D0 + TAG_HS10, skip |-> 4]
    ELSE IF strncmp0(lowerCmd, P_hs) /\ c(2) >= D1 /\ c(2) <= D9
    THEN [id |-> c(2) - D1 + TAG_HS1, skip |-> 3]
    ELSE IF strncmp0(lowerCmd, P_dhw)
    THEN [id |-> TAG_DHW1, skip |-> 3]
    ELSE [id |-> id, skip |-> 0]

\* "check prefix and valid number range, also check 'id'": the if-chain; the
\* result is the tag and the number of characters the prefix takes
match_prefix(command, lowerCmd, id) ==
    LET c(i) == At(command, i) IN
    IF strncmp0(lowerCmd, P_hc) /\ c(2) >= D1 /\ c(2) <= D8
    THEN [id |-> c(2) - D0, skip |-> 3]
    ELSE IF strncmp0(lowerCmd, P_dhw) /\ c(3) = D1 /\ c(4) = D0
    THEN [id |-> TAG_DHW10, skip |-> 5]
    ELSE IF strncmp0(lowerCmd, P_dhw) /\ c(3) >= D1 /\ c(3) <= D9
    THEN [id |-> c(3) - D1 + TAG_DHW1, skip |-> 4]
    ELSE IF strncmp0(lowerCmd, P_id) /\ c(2) = D1 /\ c(3) >= D0 /\ c(3) <= D9
    THEN [id |-> c(3) - D0 + 10, skip |-> 4]
    ELSE IF strncmp0(lowerCmd, P_id) /\ c(2) >= D1 /\ c(2) <= D9
    THEN [id |-> c(2) - D0, skip |-> 3]
    ELSE IF strncmp0(lowerCmd, P_ahs) /\ c(3) >= D1 /\ c(3) <= D1
    THEN [id |-> c(3) - D1 + TAG_AHS1, skip |-> 4]
    ELSE IF strncmp0(lowerCmd, P_hs) /\ c(2) = D1 /\ c(3) >= D0 /\ c(3) <= D6
    THEN [id |-> c(3) - D0 + TAG_HS10, skip |-> 4]
    ELSE IF strncmp0(lowerCmd, P_hs) /\ c(2) >= D1 /\ c(2) <= D9
    THEN [id |-> c(2) - D1 + TAG_HS1, skip |-> 3]
    ELSE IF strncmp0(lowerCmd, P_dhw)
    THEN [id |-> TAG_DHW1, skip |-> 3]
    ELSE [id |-> id, skip |-> 0]

\* '/', '.' and '_'
Separators == {Slash, Ord("."), Ord("_")}

\* const char * parse_command_string(const char * command, int8_t & id):
\* ret is the returned pointer, id the value left in the reference
parse_command_string(command, id) ==
    IF command = nullptr
    THEN [ret |-> nullptr, id |-> id]
    ELSE LET m  == match_prefix(command, toLower(command), id)
             c1 == Advance(command, m.skip)
             c2 == IF At(c1, 0) \in Separators THEN Advance(c1, 1) ELSE c1
         IN  [ret |-> IF At(c2, 0) = 0 THEN nullptr ELSE c2, id |-> m.id]

---------------------------------------------------------------------------
(* CommandFlag and the registry cmdfunctions_                              *)
(*                                                                         *)
(* An entry (CmdFunction) is a record                                      *)
(*   [device_type_, device_id_, flags_, cmd_, cmdfunction_,                *)
(*    cmdfunction_json_, description_]                                     *)
(* where a callback or description of 0 is a null pointer.  A pointer to   *)
(* an entry is its position in cmdfunctions_, 0 for nullptr.               *)

CMD_FLAG_DEFAULT == 0
CMD_FLAG_HC == 1
CMD_FLAG_DHW == 2
CMD_FLAG_AHS == 4
CMD_FLAG_HS == 8
HIDDEN == 64
ADMIN_ONLY == 128

\* flags & 0x3F
Mask3F(flags) == flags % 64

\* CmdFunction::has_flags for a one-bit flag
has_flags(flags_, flag) == (flags_ \div flag) % 2 = 1

\* flags |= flag for a one-bit flag
SetFlag(flags, flag) == IF has_flags(flags, flag) THEN flags ELSE flags + flag

\* the condition of the loop of find_command with the wildcard on the entry's id
find_match_entry_wildcard(cf, device_type, device_id, cmd, flag) ==
    /\ toLower(cmd) = toLower(cf.cmd_)
    /\ cf.device_type_ = device_type
    /\ (cf.device_id_ = 0 \/ device_id = 0 \/ cf.device_id_ = device_id)
    /\ (flag = CMD_FLAG_DEFAULT \/ Mask3F(flag) = Mask3F(cf.flags_))

\* the condition of the loop of find_command
find_match(cf, device_type, device_id, cmd, flag) ==
    /\ toLower(cmd) = toLower(cf.cmd_)
    /\ cf.device_type_ = device_type
    /\ (device_id = 0 \/ cf.device_id_ = device_id)
    /\ (flag = CMD_FLAG_DEFAULT \/ Mask3F(flag) = Mask3F(cf.flags_))

\* the smallest element of a non-empty set of positions
First(P) == CHOOSE i \in P : \A j \in P : i <= j

\* Command::find_command: the position of the first matching entry, 0 for nullptr
find_command(reg, device_type, device_id, cmd, flag) ==
    IF cmd = nullptr \/ Len(cmd) = 0 \/ reg = <<>>
    THEN 0
    ELSE LET P == {i \in 1..Len(reg) : find_match(reg[i], device_type, device_id, cmd, flag)}
         IN  IF P = {} THEN 0 ELSE First(P)

\* add without the check for an existing command
add_unchecked(reg, device_type, device_id, cmd, cb, description, flags) ==
    Append(reg, [device_type_ |-> device_type, device_id_ |-> device_id,
                 flags_ |-> IF description = 0 THEN SetFlag(flags, HIDDEN) ELSE flags,
                 cmd_ |-> cmd, cmdfunction_ |-> cb, cmdfunction_json_ |-> 0,
                 description_ |-> description])

\* Command::add(device_type, device_id, cmd, cb, description, flags): a value handler
\* (the overload without device_id is the case device_id = 0)
add(reg, device_type, device_id, cmd, cb, description, flags) ==
    IF find_command(reg, device_type, device_id, cmd, flags) # 0
    THEN reg
    ELSE Append(reg, [device_type_ |-> device_type, device_id_ |-> device_id,
                      flags_ |-> IF description = 0 THEN SetFlag(flags, HIDDEN) ELSE flags,
                      cmd_ |-> cmd, cmdfunction_ |-> cb, cmdfunction_json_ |-> 0,
                      description_ |-> description])

\* Command::add(device_type, cmd, cb, description, flags): a structured (json) handler
add_json(reg, device_type, cmd, cb, description, flags) ==
    IF find_command(reg, device_type, 0, cmd, flags) # 0
    THEN reg
    ELSE Append(reg, [device_type_ |-> device_type, device_id_ |-> 0,
                      flags_ |-> flags,
                      cmd_ |-> cmd, cmdfunction_ |-> 0, cmdfunction_json_ |-> cb,
                      description_ |-> description])

\* vector::erase at position i (1-based) of a sequence
EraseAt(reg, i) == SubSeq(reg, 1, i - 1) \o SubSeq(reg, i + 1, Len(reg))

\* Command::erase_command: erases the first entry that matches
erase_command(reg, device_type, cmd, flag) ==
    IF cmd = nullptr \/ Len(cmd) = 0 \/ reg = <<>>
    THEN reg
    ELSE LET P == {i \in 1..Len(reg) :
                     /\ toLower(cmd) = toLower(reg[i].cmd_)
                     /\ reg[i].device_type_ = device_type
                     /\ Mask3F(flag) = Mask3F(reg[i].flags_)}
         IN  IF P = {} THEN reg ELSE EraseAt(reg, First(P))

\* One pass of the do-while loop of erase_device_commands with it = begin() + i.
\* st = [reg, corrupt].  With i < size the slot read is reg[i + 1].  With
\* i = size the slot is one past the last entry: the read is out of bounds and
\* oob[i] tells whether the byte found there equals device_type; erase(end())
\* is then what libstdc++'s vector::_M_erase does, it moves nothing and takes
\* the last entry off (--_M_finish), and on an empty vector leaves it corrupt.
erase_device_step(st, i, device_type, oob) ==
    IF st.corrupt THEN st
    ELSE IF i < Len(st.reg)
    THEN IF st.reg[i + 1].device_type_ = device_type
         THEN [st EXCEPT !.reg = EraseAt(st.reg, i + 1)]
         ELSE st
    ELSE IF oob[i]
    THEN IF Len(st.reg) > 0
         THEN [st EXCEPT !.reg = SubSeq(st.reg, 1, Len(st.reg) - 1)]
         ELSE [st EXCEPT !.corrupt = TRUE]
    ELSE st

RECURSIVE erase_device_loop(_, _, _, _)
\* the passes with it at i, i - 1, ..., 0 ("while (it-- > begin())")
erase_device_loop(st, i, device_type, oob) ==
    LET st1 == erase_device_step(st, i, device_type, oob)
    IN  IF i > 0 THEN erase_device_loop(st1, i - 1, device_type, oob) ELSE st1

RECURSIVE erase_device_passes(_, _, _, _)
\* the passes of the loop as erase_device_loop makes them: for each the index
\* i = it - begin() it reads at, the size of the vector at that moment and
\* whether the pass erases
erase_device_passes(st, i, device_type, oob) ==
    LET st1 == erase_device_step(st, i, device_type, oob)
        pass == [index |-> i, size |-> Len(st.reg), erases |-> st1 # st]
    IN  IF st.corrupt THEN <<>>
        ELSE IF i > 0 THEN <<pass>> \o erase_device_passes(st1, i - 1, device_type, oob)
        ELSE <<pass>>

\* Command::erase_device_commands: the scan starts at it = end()
erase_device_commands(reg, device_type, oob) ==
    IF reg = <<>>
    THEN [reg |-> reg, corrupt |-> FALSE]
    ELSE erase_device_loop([reg |-> reg, corrupt |-> FALSE], Len(reg), device_type, oob)

---------------------------------------------------------------------------
(* Command::call                                                           *)
(*                                                                         *)
(* A JsonObject is a function from its keys to their values.  The          *)
(* collaborators outside command.cpp answer as the record env says:        *)
(*   env.info, env.info_writes   EMSESP::get_device_value_info: its result *)
(*                               and what it puts into the output          *)
(*   env.device_id               EMSESP::device_id_from_cmd                *)
(*   env.readonly                EMSESP::cmd_is_readonly                   *)
(*   env.handler_ret, env.handler_writes   the registered callback: its    *)
(*                               result and, for a structured handler,     *)
(*                               what it puts into the output              *)
(* EMSESP::system_.readonly_mode() only changes the text of a log line.    *)

EmptyJson == <<>>

containsKey(json, key) == key \in DOMAIN json

\* output[key] = value
Put(json, key, value) ==
    [k \in DOMAIN json \cup {key} |-> IF k = key THEN value ELSE json[k]]

\* the output after a collaborator has put the members of writes into it
Merge(json, writes) ==
    [k \in DOMAIN json \cup DOMAIN writes |-> IF k \in DOMAIN writes THEN writes[k] ELSE json[k]]

\* Command::message(return_code, text, output): puts the text into the output
\* and hands the return code back
message(return_code, text, output) ==
    [ret |-> return_code, output |-> Put(output, "message", text)]

\* the flag of a lookup that leaves the tag out of account
tag_flag_default(tag) == CMD_FLAG_DEFAULT

\* "determine flags based on id (which is the tag)"
tag_flag(tag) ==
    IF tag >= TAG_HC1 /\ tag <= TAG_HC8 THEN CMD_FLAG_HC
    ELSE IF tag >= TAG_DHW1 /\ tag <= TAG_DHW10 THEN CMD_FLAG_DHW
    ELSE IF tag >= TAG_HS1 /\ tag <= TAG_HS16 THEN CMD_FLAG_HS
    ELSE IF tag >= TAG_AHS1 /\ tag <= TAG_AHS1 THEN CMD_FLAG_AHS
    ELSE CMD_FLAG_DEFAULT

\* the record of one invocation of the callback of entry cf
Invocation(reg, cf, value, id) ==
    [cf |-> cf, entry |-> reg[cf], value |-> value, id |-> id]

\* the permission check of call without the test of is_admin
not_authorized_always(cf_flags, is_admin) == has_flags(cf_flags, ADMIN_ONLY)

\* "before calling the command, check permissions and abort if not authorized"
not_authorized(cf_flags, is_admin) == has_flags(cf_flags, ADMIN_ONLY) /\ ~is_admin

\* the read-only test of call with the test of single_command inverted
blocked_readonly_query(entry, single_command, readonly) ==
    /\ entry.cmdfunction_json_ = 0
    /\ entry.cmdfunction_ # 0
    /\ single_command
    /\ readonly

\* whether call answers INVALID instead of invoking the callback of the entry:
\* only a value handler (cmdfunction_) is guarded by cmd_is_readonly
blocked_readonly(entry, single_command, readonly) ==
    /\ entry.cmdfunction_json_ = 0
    /\ entry.cmdfunction_ # 0
    /\ ~single_command
    /\ readonly

\* "call the function based on type" and "report back": the part of call after
\* the permission check.  handlers lists the callbacks invoked, ro_checks counts
\* the calls of cmd_is_readonly.
call_invoke(reg, cf, value, single_command, id, output, env) ==
    LET entry == reg[cf]
        blocked == blocked_readonly(entry, single_command, env.readonly)
        is_json == entry.cmdfunction_json_ # 0
        invoked == (is_json \/ entry.cmdfunction_ # 0) /\ ~blocked
        return_code ==
            IF blocked THEN "INVALID"
            ELSE IF invoked /\ ~env.handler_ret THEN "ERROR"
            ELSE "OK"
        out1 == IF is_json THEN Merge(output, env.handler_writes) ELSE output
        rep == IF return_code # "OK"
               THEN message(return_code, "callback function failed", out1)
               ELSE [ret |-> return_code, output |-> out1]
    IN  [ret |-> rep.ret, output |-> rep.output, lookup |-> TRUE, cf |-> cf,
         handlers |-> IF invoked THEN <<Invocation(reg, cf, value, id)>> ELSE <<>>,
         ro_checks |-> IF ~is_json /\ entry.cmdfunction_ # 0 /\ ~single_command THEN 1 ELSE 0]

\* uint8_t Command::call(device_type, cmd, value, is_admin, id, output)
\* lookup tells whether find_command was reached, cf is what it returned
call(reg, device_type, cmd, value, is_admin, id, output, env) ==
    IF cmd = nullptr
    THEN [ret |-> "NOT_FOUND", output |-> output, lookup |-> FALSE, cf |-> 0,
          handlers |-> <<>>, ro_checks |-> 0]
    ELSE
    LET single_command == (value = nullptr \/ Len(value) = 0)
        out0 == IF single_command THEN Merge(output, env.info_writes) ELSE output
    IN  IF single_command /\ env.info
        THEN [ret |-> "OK", output |-> out0, lookup |-> FALSE, cf |-> 0,
              handlers |-> <<>>, ro_checks |-> 0]
        ELSE
        LET device_id == env.device_id
            flag == tag_flag(id)
            cf == find_command(reg, device_type, device_id, cmd, flag)
        IN  IF cf = 0
            THEN [ret |-> "ERROR", output |-> out0, lookup |-> TRUE, cf |-> 0,
                  handlers |-> <<>>, ro_checks |-> 0]
            ELSE IF not_authorized(reg[cf].flags_, is_admin)
            THEN [ret |-> "NOT_ALLOWED",
                  output |-> Put(out0, "message", "authentication failed"),
                  lookup |-> TRUE, cf |-> cf, handlers |-> <<>>, ro_checks |-> 0]
            ELSE call_invoke(reg, cf, value, single_command, id, out0, env)

---------------------------------------------------------------------------
(* SUrlParser                                                              *)
(*                                                                         *)
(* A parser is [m_folders, m_keysvalues]; while it scans it also holds the *)
(* token s, the state t ("begin", "folder", "param", "value") and          *)
(* last_param.                                                             *)

Quest == Ord("?")
Equals == Ord("=")
Amp == Ord("&")

\* one pass of the do-while loop of SUrlParser::parse on *c (0 ends the uri)
parse_char(st, c) ==
    IF c = Slash
    THEN [st EXCEPT !.m_folders = IF Len(st.s) > 0 THEN Append(@, st.s) ELSE @,
                    !.s = <<>>, !.t = "folder"]
    ELSE IF c = Quest /\ st.t \in {"folder", "begin"}
    THEN [st EXCEPT !.m_folders = IF Len(st.s) > 0 THEN Append(@, st.s) ELSE @,
                    !.s = <<>>, !.t = "param"]
    ELSE IF c = Equals /\ st.t \in {"param", "begin"}
    THEN [st EXCEPT !.m_keysvalues = Put(@, st.s, <<>>),
                    !.last_param = st.s, !.s = <<>>, !.t = "value"]
    ELSE IF c = Amp /\ st.t \in {"value", "param", "begin"}
    THEN [st EXCEPT !.m_keysvalues = IF st.t = "value" THEN Put(@, st.last_param, st.s)
                                     ELSE IF Len(st.s) > 0 THEN Put(@, st.s, <<>>)
                                     ELSE @,
                    !.last_param = IF st.t # "value" /\ Len(st.s) > 0 THEN st.s ELSE @,
                    !.t = "param", !.s = <<>>]
    ELSE IF c = 0 /\ Len(st.s) > 0
    THEN [st EXCEPT !.m_keysvalues = IF st.t = "value" THEN Put(@, st.last_param, st.s)
                                     ELSE IF st.t = "param" THEN Put(@, st.s, <<>>)
                                     ELSE @,
                    !.m_folders = IF st.t \in {"folder", "begin"} THEN Append(@, st.s) ELSE @,
                    !.last_param = IF st.t = "param" THEN st.s ELSE @,
                    !.s = <<>>]
    ELSE IF c = 0
    THEN [st EXCEPT !.m_keysvalues = IF st.t = "param" /\ Len(st.last_param) > 0
                                     THEN Put(@, st.last_param, <<>>)
                                     ELSE @,
                    !.s = <<>>]
    ELSE [st EXCEPT !.s = Append(@, c)]

RECURSIVE parse_loop(_, _, _)
\* the passes on uri[i], ..., and on the terminating 0
parse_loop(st, uri, i) ==
    IF i > Len(uri)
    THEN parse_char(st, 0)
    ELSE parse_loop(parse_char(st, uri[i]), uri, i + 1)

\* bool SUrlParser::parse(uri) on the parser p: a null or empty uri leaves p as it is
parse(p, uri) ==
    IF uri = nullptr \/ Len(uri) = 0
    THEN [ok |-> FALSE, m_folders |-> p.m_folders, m_keysvalues |-> p.m_keysvalues]
    ELSE LET st == parse_loop([m_folders |-> <<>>, m_keysvalues |-> <<>>, s |-> <<>>,
                               t |-> "begin", last_param |-> <<>>], uri, 1)
         IN  [ok |-> TRUE, m_folders |-> st.m_folders, m_keysvalues |-> st.m_keysvalues]

---------------------------------------------------------------------------
(* Command::process                                                        *)
(*                                                                         *)
(* A JSON value is [kind, v] with kind "string" (v the characters), "int",  *)
(* "float" (v in hundredths), "bool", "null" or "object".  The record ext  *)
(* holds what lies outside command.cpp:                                    *)
(*   ext.base            Mqtt::base()                                      *)
(*   ext.emsdevices      the device types of EMSESP::emsdevices            *)
(*   ext.sensor_enabled, ext.analog_enabled                                *)
(*   ext.inner, ext.outer   the env of the query of an indirect value and  *)
(*                       the env of the call that ends process             *)
(*   ext.stale           the characters found behind the terminator of     *)
(*                       new_path, which nothing has written               *)
(*   ext.stack           "kept" or "reused": whether the build gives the   *)
(*                       stack slot of the block-local array command to    *)
(*                       the arrays of later blocks (data_s, data_str)     *)

\* command.h and mqtt.h
COMMAND_MAX_LENGTH == 50
MQTT_TOPIC_MAX_SIZE == 128
\* char device_s[20]
DEVICE_S_SIZE == 20
\* strlcpy(data_s, ..., 30)
DATA_S_COPY == 30

S_api == Str(<<"a", "p", "i">>)
S_info == Str(<<"i", "n", "f", "o">>)
S_values == Str(<<"v", "a", "l", "u", "e", "s">>)
S_slash_value == Str(<<"/", "v", "a", "l", "u", "e">>)
S_boiler == Str(<<"b", "o", "i", "l", "e", "r">>)
S_thermostat == Str(<<"t", "h", "e", "r", "m", "o", "s", "t", "a", "t">>)
S_system == Str(<<"s", "y", "s", "t", "e", "m">>)
Minus == Ord("-")
Dot == Ord(".")

\* strlcpy and snprintf into size bytes keep at most size - 1 characters
Truncate(str, size) == SubSeq(str, 1, IF Len(str) < size THEN Len(str) ELSE size - 1)

\* strchr(d, c) - d, -1 for nullptr
strchr(d, c) ==
    LET P == {i \in 0..(Len(d) - 1) : d[i + 1] = c}
    IN  IF P = {} THEN -1 ELSE First(P)

\* strstr(str, sub) != nullptr
strstr(str, sub) ==
    \E i \in 0..(Len(str) - Len(sub)) : SubSeq(str, i + 1, i + Len(sub)) = sub

\* EMSdevice::device_name_2_device_type
device_name_2_device_type(name) ==
    IF name = nullptr THEN "UNKNOWN"
    ELSE IF toLower(name) = S_boiler THEN "BOILER"
    ELSE IF toLower(name) = S_thermostat THEN "THERMOSTAT"
    ELSE IF toLower(name) = S_system THEN "SYSTEM"
    ELSE "UNKNOWN"

\* Command::device_has_commands
device_has_commands(reg, device_type, ext) ==
    IF device_type = "UNKNOWN" THEN FALSE
    ELSE IF device_type \in {"SYSTEM", "SCHEDULER", "CUSTOM"} THEN TRUE
    ELSE IF device_type = "TEMPERATURESENSOR" THEN ext.sensor_enabled
    ELSE IF device_type = "ANALOGSENSOR" THEN ext.analog_enabled
    ELSE /\ device_type \in ext.emsdevices
         /\ \E i \in 1..Len(reg) : reg[i].device_type_ = device_type

\* input[key] read as const char *
as_cstring(input, key) == IF input[key].kind = "string" THEN input[key].v ELSE nullptr

\* the two's complement value of the low 8 bits
int8(n) == ((n + 128) % 256) - 128

\* input[key] read as int8_t: 0 unless an integer that fits
as_int8(input, key) ==
    IF input[key].kind = "int" /\ input[key].v >= -128 /\ input[key].v <= 127
    THEN input[key].v
    ELSE 0

\* the digits of n >= 0
RECURSIVE utoa(_)
utoa(n) == IF n < 10 THEN <<D0 + n>> ELSE Append(utoa(n \div 10), D0 + (n % 10))

\* Helpers::itoa
itoa(n) == IF n < 0 THEN <<Minus>> \o utoa(-n) ELSE utoa(n)

\* Helpers::render_value(result, value, 2) of the float h / 100
render_value(h) ==
    LET a == IF h < 0 THEN -h ELSE h
    IN  (IF h < 0 THEN <<Minus>> ELSE <<>>) \o utoa(a \div 100)
        \o <<Dot, D0 + ((a \div 10) % 10), D0 + (a % 10)>>

\* lines 41-53: the folders left when the transport prefix is taken off
strip_prefix(path, p, ext) ==
    IF p.m_folders[1] = S_api
    THEN [ok |-> TRUE, m_folders |-> Tail(p.m_folders)]
    ELSE IF strncmp0(path, ext.base)
    THEN LET new_path == Truncate(path, MQTT_TOPIC_MAX_SIZE)
             start == Len(ext.base) + 1
             uri == IF start <= Len(new_path) THEN Advance(new_path, start) ELSE ext.stale
         IN  [ok |-> TRUE, m_folders |-> parse(p, uri).m_folders]
    ELSE [ok |-> FALSE, m_folders |-> p.m_folders]

\* lines 85-106: the raw command
raw_command(folders, input) ==
    LET num_paths == Len(folders)
    IN  IF num_paths = 2 THEN folders[2]
        ELSE IF num_paths = 3
        THEN Truncate(folders[2] \o <<Slash>> \o folders[3], COMMAND_MAX_LENGTH)
        ELSE IF num_paths > 3
        THEN Truncate(folders[2] \o <<Slash>> \o folders[3] \o <<Slash>> \o folders[4],
                      COMMAND_MAX_LENGTH)
        ELSE IF containsKey(input, "entity") THEN as_cstring(input, "entity")
        ELSE IF containsKey(input, "cmd") THEN as_cstring(input, "cmd")
        ELSE nullptr

\* the tag from the JSON input with id looked at before dhw
json_tag_id_first(input, id_n) ==
    IF id_n # -1 THEN id_n
    ELSE IF containsKey(input, "hc") THEN as_int8(input, "hc")
    ELSE IF containsKey(input, "id") THEN as_int8(input, "id")
    ELSE IF containsKey(input, "dhw") THEN int8(as_int8(input, "dhw") + TAG_DHW1 - TAG_HC1)
    ELSE IF containsKey(input, "ahs") THEN int8(as_int8(input, "ahs") + TAG_AHS1 - TAG_HC1)
    ELSE IF containsKey(input, "hs") THEN int8(as_int8(input, "hs") + TAG_HS1 - TAG_HC1)
    ELSE id_n

\* lines 121-138: the tag from the JSON input
json_tag(input, id_n) ==
    IF id_n # -1 THEN id_n
    ELSE IF containsKey(input, "hc") THEN as_int8(input, "hc")
    ELSE IF containsKey(input, "dhw") THEN int8(as_int8(input, "dhw") + TAG_DHW1 - TAG_HC1)
    ELSE IF containsKey(input, "id") THEN as_int8(input, "id")
    ELSE IF containsKey(input, "ahs") THEN int8(as_int8(input, "ahs") + TAG_AHS1 - TAG_HC1)
    ELSE IF containsKey(input, "hs") THEN int8(as_int8(input, "hs") + TAG_HS1 - TAG_HC1)
    ELSE id_n

\* lines 141-146: the value from the JSON input
json_data(input) ==
    IF containsKey(input, "data") THEN input["data"]
    ELSE IF containsKey(input, "value") THEN input["value"]
    ELSE [kind |-> "null", v |-> 0]

\* What command_p points at once the array buf of a later block is written.
\* command_p points skip characters into the array command of the block of
\* lines 89-99, which is dead when that block ends: when the build reuses its
\* stack slot, buf and its terminator lie over the start of command.
dangling(ext, command, skip, command_p, buf) ==
    IF ext.stack = "kept" \/ command = nullptr \/ command_p = nullptr
    THEN command_p
    ELSE IF skip <= Len(buf) THEN Advance(buf, skip)
    ELSE command_p

\* one call made by process, with what it was given
CallRecord(r, device_type, cmd, value, is_admin, id) ==
    [device_type |-> device_type, cmd |-> cmd, value |-> value, is_admin |-> is_admin,
     id |-> id, ret |-> r.ret, output |-> r.output, lookup |-> r.lookup, cf |-> r.cf,
     handlers |-> r.handlers, ro_checks |-> r.ro_checks]

\* what process returns when it makes no call
NoCall(m) ==
    [ret |-> m.ret, output |-> m.output, calls |-> <<>>, device_type |-> "UNKNOWN",
     command |-> nullptr, id |-> -1]

\* the indirect value handed on to the query as its value
process_indirect_value(reg, device_type, command, skip, command_p, d, is_admin, id_n, output, ext) ==
    LET device_end == strchr(d, Slash)
        device_s == SubSeq(d, 1, device_end)
        pr == parse_command_string(Advance(d, device_end + 1), -1)
        lower == Truncate(toLower(pr.ret), DATA_S_COPY)
        data_s == IF strstr(lower, S_slash_value) THEN lower ELSE lower \o S_slash_value
        \* line 169 declares a second device_type, which the calls below use
        device_type_169 == device_name_2_device_type(device_s)
        r1 == call(reg, device_type_169, data_s, d, TRUE, pr.id, output, ext.inner)
        c1 == CallRecord(r1, device_type_169, data_s, d, TRUE, pr.id)
        dat == r1.output["api_data"]
        cmd2 == dangling(ext, command, skip, command_p, data_s)
        r2 == call(reg, device_type_169, cmd2, dat, is_admin, id_n, EmptyJson, ext.outer)
        c2 == CallRecord(r2, device_type_169, cmd2, dat, is_admin, id_n)
    IN  IF pr.ret = nullptr
        THEN [ret |-> "INVALID", output |-> output, calls |-> <<>>,
              device_type |-> device_type, command |-> command_p, id |-> id_n]
        ELSE IF r1.ret # "OK" \/ ~containsKey(r1.output, "api_data")
        THEN [ret |-> "INVALID", output |-> r1.output, calls |-> <<c1>>,
              device_type |-> device_type, command |-> command_p, id |-> id_n]
        ELSE [ret |-> r2.ret, output |-> r2.output, calls |-> <<c1, c2>>,
              device_type |-> device_type, command |-> command_p, id |-> id_n]

\* lines 150-178: the value d names an entity of a device, "device/hc1/name".
\* device_type, command_p and id_n are those of the request; command and skip
\* tell where command_p points (see dangling).  The device named in d is
\* copied with the length found in d, whatever the size of device_s: the
\* requests of the specifications keep it below DEVICE_S_SIZE.
process_indirect(reg, device_type, command, skip, command_p, d, is_admin, id_n, output, ext) ==
    LET device_end == strchr(d, Slash)
        device_s == SubSeq(d, 1, device_end)
        pr == parse_command_string(Advance(d, device_end + 1), -1)
        lower == Truncate(toLower(pr.ret), DATA_S_COPY)
        data_s == IF strstr(lower, S_slash_value) THEN lower ELSE lower \o S_slash_value
        \* line 169 declares a second device_type, which the calls below use
        device_type_169 == device_name_2_device_type(device_s)
        r1 == call(reg, device_type_169, data_s, <<>>, TRUE, pr.id, output, ext.inner)
        c1 == CallRecord(r1, device_type_169, data_s, <<>>, TRUE, pr.id)
        dat == r1.output["api_data"]
        cmd2 == dangling(ext, command, skip, command_p, data_s)
        r2 == call(reg, device_type_169, cmd2, dat, is_admin, id_n, EmptyJson, ext.outer)
        c2 == CallRecord(r2, device_type_169, cmd2, dat, is_admin, id_n)
    IN  IF pr.ret = nullptr
        THEN [ret |-> "INVALID", output |-> output, calls |-> <<>>,
              device_type |-> device_type, command |-> command_p, id |-> id_n]
        ELSE IF r1.ret # "OK" \/ ~containsKey(r1.output, "api_data")
        THEN [ret |-> "INVALID", output |-> r1.output, calls |-> <<c1>>,
              device_type |-> device_type, command |-> command_p, id |-> id_n]
        ELSE [ret |-> r2.ret, output |-> r2.output, calls |-> <<c1, c2>>,
              device_type |-> device_type, command |-> command_p, id |-> id_n]

\* lines 183-200: the call on the value as its kind says.  An integer or a
\* float is written to the array data_str of its block before the call.
process_dispatch(reg, device_type, command, skip, command_p, data, is_admin, id_n, output, ext) ==
    IF data.kind = "object"
    THEN LET m == message("ERROR", "cannot parse command", output)
         IN  [ret |-> m.ret, output |-> m.output, calls |-> <<>>,
              device_type |-> device_type, command |-> command_p, id |-> id_n]
    ELSE LET value == IF data.kind = "string" THEN data.v
                      ELSE IF data.kind = "int" THEN itoa(data.v)
                      ELSE IF data.kind = "float" THEN render_value(data.v)
                      ELSE IF data.kind = "bool" THEN (IF data.v THEN <<D1>> ELSE <<D0>>)
                      ELSE <<>>
             cmd == IF data.kind \in {"int", "float"}
                    THEN dangling(ext, command, skip, command_p, value)
                    ELSE command_p
             r == call(reg, device_type, cmd, value, is_admin, id_n, output, ext.outer)
         IN  [ret |-> r.ret, output |-> r.output,
              calls |-> <<CallRecord(r, device_type, cmd, value, is_admin, id_n)>>,
              device_type |-> device_type, command |-> command_p, id |-> id_n]

\* the default command with F_(values) for every device type
default_command_values(device_type) == S_values

\* line 115: "default to 'info' for SYSTEM, the other devices to 'values'"
default_command(device_type) == IF device_type = "SYSTEM" THEN S_info ELSE S_values

\* a result of process together with what it derived from the request:
\* the number of folders, the device type, the raw command and what the tag
\* resolver made of it
WithTrace(res, trace) ==
    [ret |-> res.ret, output |-> res.output, calls |-> res.calls,
     device_type |-> res.device_type, command |-> res.command, id |-> res.id,
     trace |-> trace]

\* process returned before it looked at the device
NoTrace ==
    [num_paths |-> -1, folders |-> <<>>, device_type |-> "UNKNOWN", raw |-> nullptr,
     resolved |-> nullptr, tag |-> -1]

\* lines 62-200: process once the folders of the path are known
process_folders(reg, folders, is_admin, input, output, ext) ==
    LET num_paths == Len(folders)
        device_s == IF num_paths = 0
                    THEN (IF containsKey(input, "device")
                          THEN as_cstring(input, "device") ELSE nullptr)
                    ELSE folders[1]
        device_type == device_name_2_device_type(device_s)
        command == raw_command(folders, input)
        pr == parse_command_string(command, -1)
        command_p == IF pr.ret # nullptr THEN pr.ret ELSE default_command(device_type)
        \* the array command of lines 91 and 96, when command_p points into it
        buffer == IF num_paths >= 3 /\ pr.ret # nullptr THEN command ELSE nullptr
        skip == IF buffer = nullptr THEN 0 ELSE Len(command) - Len(pr.ret)
        id_n == json_tag(input, pr.id)
        data == json_data(input)
        res ==
            IF ~device_has_commands(reg, device_type, ext)
            THEN NoCall(message("ERROR", "unknown device", output))
            ELSE IF pr.ret = nullptr /\ ~(num_paths < (IF pr.id > 0 THEN 4 ELSE 3))
            THEN NoCall(message("NOT_FOUND", "missing or bad command", output))
            ELSE IF data.kind = "string" /\ Len(data.v) > 0 /\ strchr(data.v, Slash) >= 0
            THEN process_indirect(reg, device_type, buffer, skip, command_p, data.v,
                                  is_admin, id_n, output, ext)
            ELSE process_dispatch(reg, device_type, buffer, skip, command_p, data,
                                  is_admin, id_n, output, ext)
    IN  WithTrace(res, [num_paths |-> num_paths, folders |-> folders,
                        device_type |-> device_type,
                        raw |-> command, resolved |-> pr.ret, tag |-> pr.id])

\* uint8_t Command::process(path, is_admin, input, output)
process(reg, path, is_admin, input, output, ext) ==
    LET p == parse([m_folders |-> <<>>, m_keysvalues |-> <<>>], path)
        sp == strip_prefix(path, p, ext)
    IN  IF Len(p.m_folders) = 0
        THEN WithTrace(NoCall(message("ERROR", "invalid path", output)), NoTrace)
        ELSE IF ~sp.ok
        THEN WithTrace(NoCall(message("ERROR", "unrecognized path", output)), NoTrace)
        ELSE IF Len(sp.m_folders) = 0 /\ DOMAIN input = {}
        THEN WithTrace(NoCall(message("ERROR", "missing command in path", output)), NoTrace)
        ELSE process_folders(reg, sp.m_folders, is_admin, input, output, ext)

---------------------------------------------------------------------------
(* Command::list                                                           *)

S_tag_hc == Str(<<"[", "h", "c", "<", "n", ">", ".", "]">>)
S_tag_dhw == Str(<<"d", "h", "w", "[", "n", "]", ".">>)
S_tag_hs == Str(<<"h", "s", "<", "n", ">", ".">>)
S_tag_ahs == Str(<<"a", "h", "s", "<", "n", ">", ".">>)
S_commands == Str(<<"c", "o", "m", "m", "a", "n", "d", "s">>)

\* Command::tagged_cmd: the name with the mark of its category in front
tagged_cmd(cmd, flag) ==
    IF Mask3F(flag) = CMD_FLAG_HC THEN S_tag_hc \o cmd
    ELSE IF Mask3F(flag) = CMD_FLAG_DHW THEN S_tag_dhw \o cmd
    ELSE IF Mask3F(flag) = CMD_FLAG_HS THEN S_tag_hs \o cmd
    ELSE IF Mask3F(flag) = CMD_FLAG_AHS THEN S_tag_ahs \o cmd
    ELSE cmd

\* the entries of the first loop of list: of the device type and not HIDDEN
list_shown(reg, device_type) ==
    {i \in 1..Len(reg) : reg[i].device_type_ = device_type /\ ~has_flags(reg[i].flags_, HIDDEN)}

\* bool Command::list(device_type, output).  The output is keyed by the tagged
\* names (the order of its members is not kept); a member holds the
\* description of the last entry with that tagged name that has one, and a
\* name none of whose entries has a description gets no member.
list(reg, device_type, output) ==
    LET forced == device_type \in {"TEMPERATURESENSOR", "ANALOGSENSOR"}
        out0 == IF forced THEN Put(Put(output, S_info, 1), S_commands, 1) ELSE output
        shown == list_shown(reg, device_type)
        sorted_cmds == {tagged_cmd(reg[i].cmd_, reg[i].flags_) : i \in shown}
        described(cl) == {i \in shown : /\ reg[i].description_ # 0
                                        /\ cl = tagged_cmd(reg[i].cmd_, reg[i].flags_)}
        keys == {cl \in sorted_cmds : described(cl) # {}}
        last_of(P) == CHOOSE i \in P : \A j \in P : j <= i
    IN  IF ~forced /\ reg = <<>>
        THEN [ret |-> FALSE, output |-> [message |-> "no commands available"]]
        ELSE [ret |-> TRUE,
              output |-> Merge(out0, [cl \in keys |-> reg[last_of(described(cl))].description_])]

---------------------------------------------------------------------------
(* The state after construction, shared by every specification             *)

Init ==
    /\ cmdfunctions_ = <<>>
    /\ corrupt = FALSE
    /\ last = [op |-> "none"]

---------------------------------------------------------------------------
(* Specification SpecTag: the tag resolver applied to bounded inputs       *)

\* the largest number written after the selector letters
MaxNumber == 20
\* the longest command left after selector and separator
MaxRest == 2

\* the decimal digits of n, nothing for n = -1
Decimal(n) ==
    IF n < 0 THEN <<>>
    ELSE IF n < 10 THEN <<D0 + n>>
    ELSE <<D0 + (n \div 10), D0 + (n % 10)>>

TagLetters ==
    { Str(<<"h", "c">>), Str(<<"H", "C">>), Str(<<"d", "h", "w">>), Str(<<"D", "h", "W">>),
      Str(<<"i", "d">>), Str(<<"I", "d">>), Str(<<"a", "h", "s">>), Str(<<"A", "H", "S">>),
      Str(<<"h", "s">>), Str(<<"h", "S">>), Str(<<"h">>), Str(<<"x", "y">>), <<>> }

RestAlphabet == {Ord("x"), Ord("X"), Slash, D1}

RestsOfLen[k \in Nat] ==
    IF k = 0 THEN {<<>>}
    ELSE {Append(r, c) : r \in RestsOfLen[k - 1], c \in RestAlphabet}

Rests == UNION {RestsOfLen[k] : k \in 0..MaxRest}

\* the value the caller's tag holds on entry (process passes -1)
TagInits == {-1, 7}

\* the operation recorded in last has returned to its caller
Return ==
    /\ last.op # "none"
    /\ last' = [op |-> "none"]
    /\ UNCHANGED <<cmdfunctions_, corrupt>>

ParseCommandString ==
    /\ last.op = "none"
    /\ \E letters \in TagLetters, n \in (-1)..MaxNumber,
          sep \in {<<>>} \cup {<<c>> : c \in Separators}, rest \in Rests, id \in TagInits :
          LET command == letters \o Decimal(n) \o sep \o rest
              r == parse_command_string(command, id)
          IN  last' = [op |-> "parse_command_string", letters |-> letters, number |-> n,
                       sep |-> sep, rest |-> rest, command |-> command, id |-> id,
                       ret |-> r.ret, id_out |-> r.id]
    /\ UNCHANGED <<cmdfunctions_, corrupt>>

NextTag == ParseCommandString \/ Return

SpecTag == Init /\ [][NextTag]_vars

\* the tag table of the unified tag space, 0 for a selector that is not in it
TableTag(letters, n) ==
    CASE letters = P_hc /\ n \in 1..8 -> n
      [] letters = P_dhw /\ n \in 1..9 -> n + 8
      [] letters = P_dhw /\ n = 10 -> 18
      [] letters = P_dhw /\ n = -1 -> 9
      [] letters = P_ahs /\ n = 1 -> 19
      [] letters = P_hs /\ n \in 1..9 -> n + 19
      [] letters = P_hs /\ n \in 10..16 -> n + 19
      [] letters = P_id /\ n \in 1..9 -> n
      [] letters = P_id /\ n \in 10..19 -> n
      [] OTHER -> 0

\* C10: a selector of the tag table (letters in any case), then a separator and
\* a non-empty rest: resolve returns exactly rest, casing kept, and sets the tag
\* to the table value.
C10_TagTable ==
    (/\ last.op = "parse_command_string"
     /\ TableTag(toLower(last.letters), last.number) # 0
     /\ last.sep # <<>>
     /\ last.rest # <<>>)
    => (/\ last.ret = last.rest
        /\ last.id_out = TableTag(toLower(last.letters), last.number))

\* "DhW10_X1" resolves to tag 18 and "X1"
C10_Witness ==
    /\ last.op = "parse_command_string"
    /\ last.command = Str(<<"D", "h", "W", "1", "0", "_", "X", "1">>)
    /\ last.id = -1
    /\ last.id_out = 18
    /\ last.ret = Str(<<"X", "1">>)

\* the letters of the selector families
Families == {P_hc, P_dhw, P_id, P_ahs, P_hs}

\* C11: a selector whose number lies outside its family's range does not
\* match: resolve leaves the tag as it was and returns the command unchanged.
C11_RangeRejection ==
    (/\ last.op = "parse_command_string"
     /\ toLower(last.letters) \in Families
     /\ last.number >= 0
     /\ TableTag(toLower(last.letters), last.number) = 0)
    => (/\ last.ret = last.command
        /\ last.id_out = last.id)

\* the command begins, in any letter case, with a selector of the tag table
StartsWithSelector(command) ==
    \E l \in Families, n \in (-1)..19 :
        /\ TableTag(l, n) # 0
        /\ Len(command) >= Len(l \o Decimal(n))
        /\ SubSeq(toLower(command), 1, Len(l \o Decimal(n))) = l \o Decimal(n)

\* C12: a non-empty command that begins with no selector, a leading separator
\* included, is returned whole and the tag is left as it was passed in.
C12_NoPrefix ==
    (/\ last.op = "parse_command_string"
     /\ last.command # <<>>
     /\ ~StartsWithSelector(last.command))
    => (/\ last.ret = last.command
        /\ last.id_out = last.id)

---------------------------------------------------------------------------
(* Specification SpecReg: the registry operations                          *)

\* the most entries the registry holds
MaxReg == 2

RegTypes == {"BOILER", "THERMOSTAT"}
\* two spellings of one command name
RegNames == {Str(<<"a", "b">>), Str(<<"A", "b">>)}
RegFlags == {CMD_FLAG_DEFAULT, CMD_FLAG_HC, ADMIN_ONLY}
\* the description, present (1) or a null pointer (0), and the flags of a registration
RegAttrs ==
    {[description |-> 1, flags |-> f] : f \in RegFlags}
    \cup {[description |-> 0, flags |-> CMD_FLAG_HC]}

\* the registrations of value handlers: a boiler (device id 8, or 0 for any)
\* and a thermostat (device id 16)
AddValueArgs ==
    {[device_type |-> "BOILER", device_id |-> i, cmd |-> n,
      description |-> t.description, flags |-> t.flags] :
        i \in {0, 8}, n \in RegNames, t \in RegAttrs}
    \cup {[device_type |-> "THERMOSTAT", device_id |-> 16, cmd |-> Str(<<"a", "b">>),
           description |-> 1, flags |-> CMD_FLAG_HC],
          [device_type |-> "THERMOSTAT", device_id |-> 0, cmd |-> Str(<<"a", "b">>),
           description |-> 1, flags |-> CMD_FLAG_DEFAULT]}

\* the registrations of structured handlers
AddJsonArgs ==
    {[device_type |-> "BOILER", cmd |-> n, description |-> t.description, flags |-> t.flags] :
        n \in RegNames, t \in RegAttrs}
    \cup {[device_type |-> "THERMOSTAT", cmd |-> Str(<<"A", "b">>),
           description |-> 0, flags |-> CMD_FLAG_DEFAULT]}

QueryIds == {0, 8, 16}
QueryNames == RegNames \cup {Str(<<"c">>), <<>>, nullptr}
QueryFlags == {CMD_FLAG_DEFAULT, CMD_FLAG_HC, CMD_FLAG_DHW, ADMIN_ONLY}

AddValue ==
    /\ last.op = "none" /\ ~corrupt
    /\ \E a \in AddValueArgs :
          LET reg == add(cmdfunctions_, a.device_type, a.device_id, a.cmd, 1,
                         a.description, a.flags)
          IN  /\ Len(reg) <= MaxReg
              /\ cmdfunctions_' = reg
              /\ last' = [op |-> "add", form |-> "value", device_type |-> a.device_type,
                          device_id |-> a.device_id, cmd |-> a.cmd,
                          description |-> a.description, flags |-> a.flags,
                          before |-> cmdfunctions_]
    /\ UNCHANGED corrupt

AddJson ==
    /\ last.op = "none" /\ ~corrupt
    /\ \E a \in AddJsonArgs :
          LET reg == add_json(cmdfunctions_, a.device_type, a.cmd, 1, a.description, a.flags)
          IN  /\ Len(reg) <= MaxReg
              /\ cmdfunctions_' = reg
              /\ last' = [op |-> "add", form |-> "json", device_type |-> a.device_type,
                          device_id |-> 0, cmd |-> a.cmd,
                          description |-> a.description, flags |-> a.flags,
                          before |-> cmdfunctions_]
    /\ UNCHANGED corrupt

FindCommand ==
    /\ last.op = "none" /\ ~corrupt
    /\ \E device_type \in RegTypes, device_id \in QueryIds, cmd \in QueryNames,
          flag \in QueryFlags :
          last' = [op |-> "find_command", device_type |-> device_type,
                   device_id |-> device_id, cmd |-> cmd, flag |-> flag,
                   ret |-> find_command(cmdfunctions_, device_type, device_id, cmd, flag)]
    /\ UNCHANGED <<cmdfunctions_, corrupt>>

EraseCommand ==
    /\ last.op = "none" /\ ~corrupt
    /\ \E device_type \in RegTypes, cmd \in QueryNames, flag \in RegFlags :
          /\ cmdfunctions_' = erase_command(cmdfunctions_, device_type, cmd, flag)
          /\ last' = [op |-> "erase_command", device_type |-> device_type, cmd |-> cmd,
                      flag |-> flag, before |-> cmdfunctions_]
    /\ UNCHANGED corrupt

EraseDeviceCommands ==
    /\ last.op = "none" /\ ~corrupt
    /\ \E device_type \in RegTypes, oob \in [0..MaxReg -> BOOLEAN] :
          LET st == erase_device_commands(cmdfunctions_, device_type, oob)
          IN  /\ cmdfunctions_' = st.reg
              /\ corrupt' = st.corrupt
              /\ last' = [op |-> "erase_device_commands", device_type |-> device_type,
                          oob |-> oob, before |-> cmdfunctions_]

\* a caller lists the commands of a device type into an empty output
List ==
    /\ last.op = "none" /\ ~corrupt
    /\ \E device_type \in RegTypes \cup {"TEMPERATURESENSOR"} :
          \E r \in {list(cmdfunctions_, device_type, EmptyJson)} :
              last' = [op |-> "list", device_type |-> device_type, ret |-> r.ret,
                       output |-> r.output]
    /\ UNCHANGED <<cmdfunctions_, corrupt>>

NextReg ==
    \/ AddValue
    \/ AddJson
    \/ FindCommand
    \/ EraseCommand
    \/ EraseDeviceCommands
    \/ List
    \/ Return

SpecReg == Init /\ [][NextReg]_vars

\* the key of an entry: device type, device id, lower-cased name, tag category
Key(device_type, device_id, cmd, flags) ==
    <<device_type, device_id, toLower(cmd), Mask3F(flags)>>

EntryKey(cf) == Key(cf.device_type_, cf.device_id_, cf.cmd_, cf.flags_)

CategoryMatch(cf, device_type, device_id, cmd, flag) ==
    /\ toLower(cmd) = toLower(cf.cmd_)
    /\ cf.device_type_ = device_type
    /\ (cf.device_id_ = device_id \/ device_id = 0)
    /\ (Mask3F(cf.flags_) = Mask3F(flag) \/ Mask3F(flag) = 0)

\* C7: find returns the first entry in storage order whose name, device type,
\* instance id (query id 0 matches any) and tag category (query category NONE
\* matches any) match, none exactly when there is no such entry; the HIDDEN
\* and ADMIN_ONLY bits do not affect the match.
C7_FindFirstMatch ==
    last.op = "find_command" =>
        LET P == IF last.cmd = nullptr \/ Len(last.cmd) = 0
                 THEN {}
                 ELSE {i \in 1..Len(cmdfunctions_) :
                         CategoryMatch(cmdfunctions_[i], last.device_type,
                                       last.device_id, last.cmd, last.flag)}
        IN  /\ P = {} => last.ret = 0
            /\ P # {} => last.ret \in P /\ \A j \in P : last.ret <= j

\* C9: erase_device_commands(T) leaves exactly the prior entries whose device
\* type is not T, in their prior order.
C9_EraseDeviceCommands ==
    last.op = "erase_device_commands" =>
        /\ ~corrupt
        /\ cmdfunctions_ = SelectSeq(last.before,
                                     LAMBDA cf : cf.device_type_ # last.device_type)

---------------------------------------------------------------------------
(* Specification SpecCall: Command::call on the registries a boiler and a  *)
(* thermostat driver build                                                 *)

Name_ab == Str(<<"a", "b">>)

\* a command whose name is that of the query of the entity "ab"
Name_ab_value == Str(<<"a", "b", "/", "v", "a", "l", "u", "e">>)

\* the registrations the dispatcher specifications draw from
DispatchRegs ==
    {[form |-> "value", device_type |-> "BOILER", device_id |-> i, cmd |-> Name_ab,
      description |-> 1, flags |-> f] : i \in {0, 8}, f \in {CMD_FLAG_DEFAULT, CMD_FLAG_HC, ADMIN_ONLY}}
    \cup {[form |-> "json", device_type |-> "BOILER", device_id |-> 0, cmd |-> Name_ab,
           description |-> 1, flags |-> f] : f \in {CMD_FLAG_DEFAULT, ADMIN_ONLY}}
    \cup {[form |-> "value", device_type |-> "THERMOSTAT", device_id |-> 0, cmd |-> Name_ab,
           description |-> 1, flags |-> CMD_FLAG_DEFAULT]}

\* a driver registers a command (a call of add that appends)
Register ==
    /\ last.op = "none" /\ ~corrupt
    /\ \E a \in DispatchRegs :
          LET reg == IF a.form = "value"
                     THEN add(cmdfunctions_, a.device_type, a.device_id, a.cmd, 1,
                              a.description, a.flags)
                     ELSE add_json(cmdfunctions_, a.device_type, a.cmd, 1,
                                   a.description, a.flags)
          IN  /\ reg # cmdfunctions_
              /\ Len(reg) <= MaxReg
              /\ cmdfunctions_' = reg
    /\ UNCHANGED <<corrupt, last>>

Value_22 == Str(<<"2", "2">>)

\* what get_device_value_info answers and puts into the output
InfoOutcomes ==
    {[info |-> FALSE, info_writes |-> EmptyJson],
     [info |-> FALSE, info_writes |-> [message |-> "no data"]],
     [info |-> TRUE, info_writes |-> [api_data |-> Value_22]]}

\* what the callback answers and, a structured handler, puts into the output
HandlerOutcomes ==
    {[handler_ret |-> TRUE, handler_writes |-> EmptyJson],
     [handler_ret |-> FALSE, handler_writes |-> EmptyJson],
     [handler_ret |-> TRUE, handler_writes |-> [api_data |-> Value_22]]}

Env(i, device_id, readonly, h) ==
    [info |-> i.info, info_writes |-> i.info_writes, device_id |-> device_id,
     readonly |-> readonly, handler_ret |-> h.handler_ret,
     handler_writes |-> h.handler_writes]

CallEnvs ==
    {Env(i, d, r, h) : i \in InfoOutcomes, d \in {0, 8}, r \in BOOLEAN, h \in HandlerOutcomes}

CallCmds == {Name_ab, Str(<<"A", "B">>), Str(<<"c">>), nullptr}
CallValues == {<<>>, Str(<<"1">>)}
\* no tag and hc1
CallTags == {-1, TAG_HC1}

Call ==
    /\ last.op = "none" /\ ~corrupt
    /\ \E device_type \in {"BOILER", "THERMOSTAT"}, cmd \in CallCmds, value \in CallValues,
          is_admin \in BOOLEAN, id \in CallTags, env \in CallEnvs :
          LET r == call(cmdfunctions_, device_type, cmd, value, is_admin, id, EmptyJson, env)
          IN  last' = [op |-> "call", device_type |-> device_type, cmd |-> cmd,
                       value |-> value, is_admin |-> is_admin, id |-> id, env |-> env,
                       ret |-> r.ret, output |-> r.output, lookup |-> r.lookup,
                       cf |-> r.cf, handlers |-> r.handlers, ro_checks |-> r.ro_checks]
    /\ UNCHANGED <<cmdfunctions_, corrupt>>

NextCall == Register \/ Call \/ Return

SpecCall == Init /\ [][NextCall]_vars

\* a non-query call that reached an entry which is not ADMIN_ONLY while the
\* read-only check answers read-only
ReadOnlyCase ==
    /\ last.op = "call"
    /\ last.value # <<>>
    /\ last.env.readonly
    /\ last.cf # 0
    /\ ~has_flags(cmdfunctions_[last.cf].flags_, ADMIN_ONLY)

\* C3 as stated: in the read-only case the call returns INVALID and invokes no
\* handler, whether the entry holds a value handler or a structured handler.
C3_ReadOnlyEveryHandler ==
    ReadOnlyCase => last.ret = "INVALID" /\ last.handlers = <<>>

\* C3: in the read-only case a call that resolves to an entry holding a value
\* handler returns INVALID and invokes no handler.
C3_ReadOnlyValueHandler ==
    (ReadOnlyCase /\ cmdfunctions_[last.cf].cmdfunction_json_ = 0)
        => last.ret = "INVALID" /\ last.handlers = <<>>

C3_Witness ==
    /\ ReadOnlyCase
    /\ cmdfunctions_[last.cf].cmdfunction_json_ = 0
    /\ cmdfunctions_[last.cf].cmdfunction_ # 0
    /\ last.ro_checks = 1
    /\ last.ret = "INVALID"

\* the registry with the ADMIN_ONLY bit of every entry cleared
ClearAdminOnly(reg) ==
    [i \in 1..Len(reg) |->
        [reg[i] EXCEPT !.flags_ = IF has_flags(@, ADMIN_ONLY) THEN @ - ADMIN_ONLY ELSE @]]

\* C4: a call that finds an ADMIN_ONLY entry while is_admin is false returns
\* NOT_ALLOWED, writes a message and invokes neither the handler nor the
\* read-only check; with is_admin true the result is the one the same call has
\* on the registry without the ADMIN_ONLY bits.
C4_AdminOnly ==
    last.op = "call" =>
        /\ (/\ last.lookup
            /\ last.cf # 0
            /\ has_flags(cmdfunctions_[last.cf].flags_, ADMIN_ONLY)
            /\ ~last.is_admin)
           => /\ last.ret = "NOT_ALLOWED"
              /\ containsKey(last.output, "message")
              /\ last.handlers = <<>>
              /\ last.ro_checks = 0
        /\ last.is_admin
           => LET r == call(ClearAdminOnly(cmdfunctions_), last.device_type, last.cmd,
                            last.value, TRUE, last.id, EmptyJson, last.env)
              IN  /\ r.ret = last.ret
                  /\ r.output = last.output
                  /\ r.cf = last.cf
                  /\ Len(r.handlers) = Len(last.handlers)
                  /\ r.ro_checks = last.ro_checks

C4_Witness ==
    /\ last.op = "call"
    /\ last.value # <<>>
    /\ ~last.is_admin
    /\ last.env.readonly
    /\ last.cf # 0
    /\ cmdfunctions_[last.cf].flags_ = ADMIN_ONLY
    /\ last.ret = "NOT_ALLOWED"

\* C5: a call or a process that returns a code other than OK leaves a
\* message field in the output.
C5_NonOkHasMessage ==
    (last.op \in {"call", "process"} /\ last.ret # "OK")
        => containsKey(last.output, "message")

\* the entries of type T whose name is the name of the call
SameName(k) ==
    {j \in 1..Len(cmdfunctions_) :
        /\ cmdfunctions_[j].device_type_ = cmdfunctions_[k].device_type_
        /\ toLower(cmdfunctions_[j].cmd_) = toLower(cmdfunctions_[k].cmd_)}

\* entry k is registered with device id 0 and is what the call names: its
\* type, its name and its tag category
ZeroIdTarget(k) ==
    /\ cmdfunctions_[k].device_id_ = 0
    /\ cmdfunctions_[k].device_type_ = last.device_type
    /\ toLower(cmdfunctions_[k].cmd_) = toLower(last.cmd)
    /\ Mask3F(cmdfunctions_[k].flags_) = tag_flag(last.id)

\* C8 as stated: a call whose lookup names an entry registered with device id
\* 0, the only entry of its type with that name and category, finds that
\* entry whatever the resolved device id.
C8_ZeroIdGeneric ==
    (last.op = "call" /\ last.lookup) =>
        \A k \in 1..Len(cmdfunctions_) :
            (/\ ZeroIdTarget(k)
             /\ \A j \in SameName(k) :
                   Mask3F(cmdfunctions_[j].flags_) = Mask3F(cmdfunctions_[k].flags_)
                       => j = k)
            => last.cf = k

\* C8: an entry registered with device id 0, the only entry of its type with
\* that name, is found by the lookup of a call when the resolved device id is
\* 0; when the resolved device id is not 0 the lookup finds nothing and the
\* call returns ERROR without invoking a handler.
C8_ZeroIdQueryOnly ==
    (last.op = "call" /\ last.lookup) =>
        \A k \in 1..Len(cmdfunctions_) :
            (ZeroIdTarget(k) /\ SameName(k) = {k})
            => /\ last.env.device_id = 0 => last.cf = k
               /\ last.env.device_id # 0
                  => last.cf = 0 /\ last.ret = "ERROR" /\ last.handlers = <<>>

\* a structured handler registered with device id 0, called for device id 8
C8_Witness ==
    /\ last.op = "call"
    /\ last.lookup
    /\ last.env.device_id = 8
    /\ Len(cmdfunctions_) = 1
    /\ ZeroIdTarget(1)
    /\ cmdfunctions_[1].cmdfunction_json_ # 0
    /\ last.ret = "ERROR"

---------------------------------------------------------------------------
(* Specification SpecProc: Command::process on the requests of the web API *)
(* and of MQTT                                                             *)

JString(t) == [kind |-> "string", v |-> Str(t)]
JInt(n) == [kind |-> "int", v |-> n]

Path_ab == Str(<<"a", "p", "i", "/", "b", "o", "i", "l", "e", "r", "/", "a", "b">>)
Path_hc1_ab ==
    Str(<<"a", "p", "i", "/", "b", "o", "i", "l", "e", "r", "/", "h", "c", "1", "/", "a", "b">>)
Path_boiler == Str(<<"a", "p", "i", "/", "b", "o", "i", "l", "e", "r">>)
Path_boiler_hc1 == Path_boiler \o Str(<<"/", "h", "c", "1">>)
Path_base_ab == Str(<<"e", "m", "s", "/", "b", "o", "i", "l", "e", "r", "/", "a", "b">>)
\* "thermostat/hc1/ab", "thermostat/hc1", "boiler/ab/value"
Ref_thermostat_hc1_ab ==
    JString(<<"t", "h", "e", "r", "m", "o", "s", "t", "a", "t", "/", "h", "c", "1", "/", "a", "b">>)
Ref_thermostat_hc1 ==
    JString(<<"t", "h", "e", "r", "m", "o", "s", "t", "a", "t", "/", "h", "c", "1">>)
Ref_boiler_ab_value ==
    JString(<<"b", "o", "i", "l", "e", "r", "/", "a", "b", "/", "v", "a", "l", "u", "e">>)

S_ems == Str(<<"e", "m", "s">>)

Request(path, input) == [path |-> path, input |-> input]

ProcRequests ==
    { Request(Path_ab, [value |-> Ref_thermostat_hc1_ab]),
      Request(Path_ab, [value |-> Ref_thermostat_hc1]),
      Request(Path_ab, [data |-> Ref_boiler_ab_value]),
      Request(Path_hc1_ab, [value |-> Ref_thermostat_hc1_ab]),
      Request(Path_ab, [value |-> JString(<<"1">>)]),
      Request(Path_ab, [value |-> JString(<<"1">>), hc |-> JInt(1)]),
      Request(Path_ab, EmptyJson),
      Request(Path_hc1_ab, [value |-> JInt(5)]),
      Request(Path_hc1_ab, [value |-> JInt(123456)]),
      Request(Path_hc1_ab, [value |-> [kind |-> "float", v |-> 2150]]),
      Request(Path_hc1_ab, [value |-> JString(<<"1">>)]),
      Request(Path_ab, [value |-> [kind |-> "float", v |-> 2150]]),
      Request(Path_ab, [value |-> [kind |-> "bool", v |-> TRUE]]),
      Request(Path_ab, [value |-> [kind |-> "object", v |-> 0]]),
      Request(Path_boiler, [cmd |-> JString(<<"a", "b">>), data |-> JString(<<"1">>)]),
      Request(Path_boiler, EmptyJson),
      Request(Path_boiler_hc1, EmptyJson),
      Request(Path_boiler_hc1, [hc |-> JInt(2), value |-> JString(<<"1">>)]),
      Request(Path_ab, [dhw |-> JInt(2), id |-> JInt(3), value |-> JString(<<"1">>)]),
      Request(Path_ab, [id |-> JInt(3), ahs |-> JInt(1)]),
      Request(Path_ab, [ahs |-> JInt(1), hs |-> JInt(2)]),
      Request(Path_ab, [hs |-> JInt(16)]),
      Request(Path_hc1_ab, [dhw |-> JInt(2), hs |-> JInt(3)]),
      Request(S_api, [device |-> JString(<<"b", "o", "i", "l", "e", "r">>), dhw |-> JInt(1)]),
      Request(Str(<<"a", "p", "i">>), EmptyJson),
      Request(Str(<<"a", "p", "i">>),
              [device |-> JString(<<"b", "o", "i", "l", "e", "r">>),
               entity |-> JString(<<"a", "b">>)]),
      Request(Str(<<"a", "p", "i", "/", "f", "o", "o", "/", "a", "b">>), EmptyJson),
      Request(Str(<<"a", "p", "i", "/", "s", "y", "s", "t", "e", "m">>), EmptyJson),
      Request(Path_base_ab, [value |-> JString(<<"1">>)]),
      Request(S_ems, EmptyJson),
      Request(S_ems \o <<Slash>>, EmptyJson),
      Request(S_ems \o <<Slash>>, [device |-> JString(<<"b", "o", "i", "l", "e", "r">>)]),
      Request(S_ems \o <<Slash>> \o S_boiler, EmptyJson),
      Request(Str(<<"x", "/", "a", "b">>), EmptyJson),
      Request(<<>>, EmptyJson),
      Request(nullptr, EmptyJson) }

\* an api_data that reads like a reference: "boiler/ab"
Value_boiler_ab == Str(<<"b", "o", "i", "l", "e", "r", "/", "a", "b">>)

\* the env of the query of an indirect value; the callback is only reached
\* when get_device_value_info answers false
InnerEnvs ==
    {Env(i, 0, FALSE, h) :
        i \in {o \in InfoOutcomes : ~o.info},
        h \in HandlerOutcomes}
    \cup
    {Env(i, 0, FALSE, [handler_ret |-> FALSE, handler_writes |-> EmptyJson]) :
        i \in {o \in InfoOutcomes : o.info}
               \cup {[info |-> TRUE, info_writes |-> [name |-> "ab"]],
                     [info |-> TRUE, info_writes |-> [api_data |-> Value_boiler_ab]]}}

\* the env of the call that ends process
OuterEnvs ==
    {Env([info |-> FALSE, info_writes |-> EmptyJson], 0, r,
         [handler_ret |-> h, handler_writes |-> EmptyJson]) : r \in BOOLEAN, h \in BOOLEAN}

Ext(inner, outer, stack, stale) ==
    [base |-> S_ems, emsdevices |-> {"BOILER", "THERMOSTAT"},
     sensor_enabled |-> FALSE, analog_enabled |-> FALSE,
     inner |-> inner, outer |-> outer, stale |-> stale, stack |-> stack]

\* The collaborators a request can meet: the query of an indirect value
\* exists only when the value has a '/', the array command is used only when
\* the path has three folders behind the prefix, and new_path is read behind
\* its terminator only when the path is the base.
ProcExts(req) ==
    {Ext(i, o, k, u) :
        i \in IF json_data(req.input).kind = "string"
                 /\ strchr(json_data(req.input).v, Slash) >= 0
              THEN InnerEnvs
              ELSE {Env([info |-> FALSE, info_writes |-> EmptyJson], 0, FALSE,
                        [handler_ret |-> FALSE, handler_writes |-> EmptyJson])},
        o \in OuterEnvs,
        k \in IF req.path = Path_hc1_ab THEN {"kept", "reused"} ELSE {"kept"},
        u \in IF req.path = S_ems THEN {<<>>, S_boiler} ELSE {<<>>}}

\* the output object the caller hands to process
ProcOutputs == {EmptyJson}

Process ==
    /\ last.op = "none" /\ ~corrupt
    /\ \E req \in ProcRequests, is_admin \in BOOLEAN, output \in ProcOutputs :
          \E ext \in ProcExts(req) :
          \E r \in {process(cmdfunctions_, req.path, is_admin, req.input, output, ext)} :
              last' = [op |-> "process", path |-> req.path, input |-> req.input,
                       is_admin |-> is_admin, entered |-> output, ext |-> ext,
                       ret |-> r.ret, output |-> r.output, calls |-> r.calls,
                       device_type |-> r.device_type, command |-> r.command, id |-> r.id,
                       trace |-> r.trace]
    /\ UNCHANGED <<cmdfunctions_, corrupt>>

\* a driver registers an ADMIN_ONLY command under the name the query of the
\* entity "ab" asks for
RegisterQueryName ==
    /\ last.op = "none" /\ ~corrupt
    /\ \E reg \in {add(cmdfunctions_, "BOILER", 0, Name_ab_value, 1, 1, ADMIN_ONLY)} :
          /\ reg # cmdfunctions_
          /\ Len(reg) <= MaxReg
          /\ cmdfunctions_' = reg
    /\ UNCHANGED <<corrupt, last>>

NextProc == Register \/ RegisterQueryName \/ Process \/ Return

SpecProc == Init /\ [][NextProc]_vars

\* the request value is a non-empty string with a '/': an indirect value
Indirect ==
    /\ last.op = "process"
    /\ json_data(last.input).kind = "string"
    /\ strchr(json_data(last.input).v, Slash) >= 0
    /\ last.device_type # "UNKNOWN"

\* C1: when the query of an indirect value returns OK with api_data = v,
\* process makes its final call on the device type of the request, with the
\* command of the request, the caller's is_admin, the tag of the request and
\* the value v, and returns the result of that call.
C1_IndirectOuterCall ==
    (Indirect /\ Len(last.calls) >= 1 /\ last.calls[1].ret = "OK"
        /\ containsKey(last.calls[1].output, "api_data"))
    => /\ Len(last.calls) = 2
       /\ last.calls[2].device_type = last.device_type
       /\ last.calls[2].cmd = last.command
       /\ last.calls[2].is_admin = last.is_admin
       /\ last.calls[2].id = last.id
       /\ last.calls[2].value = last.calls[1].output["api_data"]
       /\ last.ret = last.calls[2].ret

\* C2: when the tag resolver fails on an indirect value, or its query does
\* not return OK, or the query's output has no api_data, process returns
\* INVALID, invokes no handler of the command of the request, and the output
\* holds exactly the fields it held when process was entered.
C2_IndirectFailure ==
    (Indirect /\ Len(last.calls) < 2)
    => /\ last.ret = "INVALID"
       /\ last.output = last.entered

\* process looked at the command of a request whose device has commands
AtCommand ==
    /\ last.op = "process"
    /\ last.trace.num_paths >= 0
    /\ device_has_commands(cmdfunctions_, last.trace.device_type, last.ext)

\* C13: when the tag resolver returns null for the raw command and the number
\* of folders is below the threshold (3 without a tag, 4 with one), the command
\* is "info" for the system device and "values" for any other, a recognised tag
\* is kept, and the call is made with them; at or above the threshold process
\* returns NOT_FOUND and makes no call.
C13_DefaultCommand ==
    (AtCommand /\ last.trace.resolved = nullptr) =>
        IF last.trace.num_paths < (IF last.trace.tag = -1 THEN 3 ELSE 4)
        THEN /\ last.command = (IF last.trace.device_type = "SYSTEM" THEN S_info ELSE S_values)
             /\ last.trace.tag # -1 => last.id = last.trace.tag
             /\ last.calls # <<>> =>
                   /\ last.calls[Len(last.calls)].cmd = last.command
                   /\ last.calls[Len(last.calls)].id = last.id
             /\ (~Indirect /\ json_data(last.input).kind # "object") => Len(last.calls) = 1
        ELSE last.ret = "NOT_FOUND" /\ last.calls = <<>>

\* "api/boiler/hc1" with {"hc": 2, "value": "1"}: values is called with tag 1
C13_Witness ==
    /\ last.op = "process"
    /\ last.path = Path_boiler_hc1
    /\ containsKey(last.input, "hc")
    /\ last.trace.raw = Str(<<"h", "c", "1">>)
    /\ last.trace.resolved = nullptr
    /\ Len(last.calls) = 1
    /\ last.calls[1].cmd = S_values
    /\ last.calls[1].id = 1
    /\ last.calls[1].value = Str(<<"1">>)

\* the folders of a uri
Segments(uri) == parse([m_folders |-> <<>>, m_keysvalues |-> <<>>], uri).m_folders

\* the text of the message field of the output, "" without one
MessageOf(output) == IF containsKey(output, "message") THEN output["message"] ELSE ""

\* C14: a first folder "api" is dropped; any other path is accepted only if it
\* begins with the base, and the folders used are then those of the rest of
\* the path behind the base; a path that is neither returns ERROR
\* ("unrecognized path") and a path without folders returns ERROR ("invalid
\* path"), both without a call.
C14_TransportPrefix ==
    last.op = "process" =>
        LET p == Segments(last.path)
            base == last.ext.base
        IN  IF p = <<>>
            THEN /\ last.ret = "ERROR"
                 /\ MessageOf(last.output) = "invalid path"
                 /\ last.calls = <<>>
            ELSE IF p[1] = S_api
            THEN last.trace.folders = Tail(p)
            ELSE IF Len(last.path) >= Len(base) /\ SubSeq(last.path, 1, Len(base)) = base
            THEN last.trace.folders = Segments(Advance(last.path, Len(base)))
            ELSE /\ last.ret = "ERROR"
                 /\ MessageOf(last.output) = "unrecognized path"
                 /\ last.calls = <<>>

\* the path has folders and begins with "api" or with the base
Accepted ==
    /\ last.op = "process"
    /\ Segments(last.path) # <<>>
    /\ \/ Segments(last.path)[1] = S_api
       \/ /\ Len(last.path) >= Len(last.ext.base)
          /\ SubSeq(last.path, 1, Len(last.ext.base)) = last.ext.base

\* the folders behind "api" or behind the base
Remaining ==
    IF Segments(last.path)[1] = S_api
    THEN Tail(Segments(last.path))
    ELSE Segments(Advance(last.path, Len(last.ext.base)))

\* C15: when no folder remains behind "api" or the base, an empty body gives
\* ERROR ("missing command in path"), and otherwise the device is read from
\* the field device and the raw command from entity, or else cmd; when a
\* folder remains the device is the first of them.
C15_BodyAddressed ==
    Accepted =>
        IF Remaining = <<>>
        THEN IF DOMAIN last.input = {}
             THEN /\ last.ret = "ERROR"
                  /\ MessageOf(last.output) = "missing command in path"
                  /\ last.calls = <<>>
             ELSE /\ last.trace.device_type =
                        device_name_2_device_type(
                            IF containsKey(last.input, "device")
                            THEN as_cstring(last.input, "device") ELSE nullptr)
                  /\ last.trace.raw =
                        (IF containsKey(last.input, "entity")
                         THEN as_cstring(last.input, "entity")
                         ELSE IF containsKey(last.input, "cmd")
                         THEN as_cstring(last.input, "cmd")
                         ELSE nullptr)
        ELSE last.trace.device_type = device_name_2_device_type(Remaining[1])

\* the tag fields of the JSON input in the order they are looked at, with
\* the selector letters and the offset of each
TagFields ==
    << [key |-> "hc", letters |-> P_hc, offset |-> 0],
       [key |-> "dhw", letters |-> P_dhw, offset |-> 8],
       [key |-> "id", letters |-> P_id, offset |-> 0],
       [key |-> "ahs", letters |-> P_ahs, offset |-> 18],
       [key |-> "hs", letters |-> P_hs, offset |-> 19] >>

\* the first tag field the input has, 0 when it has none
FirstTagField(input) ==
    LET present == {i \in 1..Len(TagFields) : containsKey(input, TagFields[i].key)}
    IN  IF present = {} THEN 0
        ELSE CHOOSE i \in present : \A k \in present : i <= k

\* process got as far as a call: the tag it worked with is that of the call
Dispatched == last.op = "process" /\ last.calls # <<>>

\* C16: a tag from the command string is kept whatever the JSON input holds;
\* without one the tag is that of the first present field of hc, dhw, id, ahs,
\* hs: v for hc and id, v + 8 for dhw, v + 18 for ahs, v + 19 for hs, which is
\* the tag of the selector with these letters and this number; with no field
\* it stays -1.
C16_TagFromJson ==
    Dispatched =>
        LET f == FirstTagField(last.input)
            tag == last.id
            \* the query of an indirect value has the tag of the entity it names
            outer == IF Indirect THEN Tail(last.calls) ELSE last.calls
        IN  /\ \A i \in 1..Len(outer) : outer[i].id = tag
            /\ IF last.trace.tag # -1 THEN tag = last.trace.tag
               ELSE IF f = 0 THEN tag = -1
               ELSE /\ tag = last.input[TagFields[f].key].v + TagFields[f].offset
                    /\ tag = TableTag(TagFields[f].letters, last.input[TagFields[f].key].v)

\* a call with the tag of dhw although the input has id too, and a call with
\* the tag of the path although the input has dhw and hs
C16_Witness ==
    /\ Dispatched
    /\ \/ /\ last.trace.tag = -1
          /\ containsKey(last.input, "dhw") /\ containsKey(last.input, "id")
          /\ last.calls[1].id = TAG_DHW1 + 1
       \/ /\ last.trace.tag = TAG_HC1
          /\ containsKey(last.input, "dhw")
          /\ last.calls[1].id = TAG_HC1

\* the tag of a folder that is a selector of the tag table, 0 for any other
SelectorTag(folder) ==
    LET S == {x \in {P_hc, P_dhw, P_id, P_ahs, P_hs} \X ((-1)..MaxNumber) :
                 /\ toLower(folder) = x[1] \o Decimal(x[2])
                 /\ TableTag(x[1], x[2]) # 0}
    IN  IF S = {} THEN 0 ELSE LET x == CHOOSE x \in S : TRUE IN TableTag(x[1], x[2])

\* the category of the tag table
TagCategory(tag) ==
    IF tag \in 1..8 THEN CMD_FLAG_HC
    ELSE IF tag \in 9..18 THEN CMD_FLAG_DHW
    ELSE IF tag = 19 THEN CMD_FLAG_AHS
    ELSE IF tag \in 20..35 THEN CMD_FLAG_HS
    ELSE CMD_FLAG_DEFAULT

\* the textual form of a JSON value
Text(x) ==
    IF x.kind = "string" THEN x.v
    ELSE IF x.kind = "int" THEN itoa(x.v)
    ELSE IF x.kind = "float" THEN render_value(x.v)
    ELSE IF x.kind = "bool" THEN (IF x.v THEN <<D1>> ELSE <<D0>>)
    ELSE <<>>

\* the entries of the registry for a device type, a name and a category
Registered(device_type, name, category) ==
    {i \in 1..Len(cmdfunctions_) :
        /\ cmdfunctions_[i].device_type_ = device_type
        /\ toLower(cmdfunctions_[i].cmd_) = toLower(name)
        /\ Mask3F(cmdfunctions_[i].flags_) = category}

\* a request "api/<device>/<selector>/<name>" with {value: x}, x not a
\* reference to another entity, whose first registered entry for the device,
\* the name and the category of the selector has a value handler, is not
\* blocked by ADMIN_ONLY and passes the read-only check
RoundTrip ==
    /\ last.op = "process"
    /\ Len(Segments(last.path)) = 4
    /\ Segments(last.path)[1] = S_api
    /\ SelectorTag(Segments(last.path)[3]) # 0
    /\ DOMAIN last.input = {"value"}
    /\ last.input["value"].kind \in {"string", "int", "float", "bool"}
    /\ ~Indirect
    /\ LET seg == Segments(last.path)
           T == Registered(device_name_2_device_type(seg[2]), seg[4],
                           TagCategory(SelectorTag(seg[3])))
       IN  /\ T # {}
           /\ cmdfunctions_[First(T)].cmdfunction_ # 0
           /\ cmdfunctions_[First(T)].cmdfunction_json_ = 0
           /\ ~(has_flags(cmdfunctions_[First(T)].flags_, ADMIN_ONLY) /\ ~last.is_admin)
           /\ ~last.ext.outer.readonly

\* C17: on such a request the handler of the entry is invoked exactly once,
\* with the textual form of x and the tag of the selector, and process returns
\* OK when the handler returns true and ERROR when it returns false.
C17_RoundTrip ==
    RoundTrip =>
        LET seg == Segments(last.path)
            tag == SelectorTag(seg[3])
            T == Registered(device_name_2_device_type(seg[2]), seg[4], TagCategory(tag))
        IN  /\ Len(last.calls) = 1
            /\ Len(last.calls[1].handlers) = 1
            /\ last.calls[1].handlers[1].cf = First(T)
            /\ last.calls[1].handlers[1].value = Text(last.input["value"])
            /\ last.calls[1].handlers[1].id = tag
            /\ last.ret = (IF last.ext.outer.handler_ret THEN "OK" ELSE "ERROR")

\* C18: process makes at most two calls, and two only for an indirect value:
\* the first is the query, with an empty value; the second is given the
\* api_data of the query as a plain value, which the handler receives as it
\* is; no further call follows, whatever the api_data holds.
C18_IndirectDepth ==
    last.op = "process" =>
        /\ Len(last.calls) <= 2
        /\ (~Indirect => Len(last.calls) <= 1)
        /\ (Indirect /\ Len(last.calls) >= 1 => last.calls[1].value = <<>>)
        /\ (Len(last.calls) = 2 =>
              /\ last.calls[1].ret = "OK"
              /\ containsKey(last.calls[1].output, "api_data")
              /\ last.calls[2].value = last.calls[1].output["api_data"]
              /\ \A i \in 1..Len(last.calls[2].handlers) :
                    last.calls[2].handlers[i].value = last.calls[1].output["api_data"]
              /\ last.ret = last.calls[2].ret)

\* the query answered "boiler/ab" and the handler of the second call got it
C18_Witness ==
    /\ Indirect
    /\ Len(last.calls) = 2
    /\ strchr(last.calls[2].value, Slash) >= 0
    /\ Len(last.calls[2].handlers) = 1
    /\ last.calls[2].handlers[1].value = Value_boiler_ab

---------------------------------------------------------------------------
(* Specification SpecConc: a call in steps, with registry mutations of     *)
(* another request source between its steps                                *)
(*                                                                         *)
(* command.cpp takes no lock and cmdfunctions_ is a plain vector: nothing  *)
(* in call, find_command, add or the erase functions keeps a second caller *)
(* out while one of them runs.  The call of one source is therefore taken  *)
(* in steps (the start of the scan, one pass of the loop of find_command,  *)
(* the use of the pointer it returned) and the add or erase of another     *)
(* source runs whole between two of them.  last holds the position of the  *)
(* call: it and end are the iterators of the range-for loop (taken once,   *)
(* when the loop starts), cf the pointer find_command returned (a slot of  *)
(* the vector).  begin is the registry when the scan started, returned the *)
(* entry the scan matched, read the entry call finds behind cf; raced      *)
(* tells whether a step read a slot that no longer holds what it held when *)
(* the scan started, or storage the vector has given up.                   *)

\* the lookups a call makes: device type, device id, name, flag of the tag
ConcQueries ==
    {[device_type |-> "BOILER", device_id |-> 0, cmd |-> Name_ab, flag |-> f, is_admin |-> a] :
        f \in {CMD_FLAG_DEFAULT, CMD_FLAG_HC}, a \in BOOLEAN}

\* call up to the start of the loop of find_command (lines 295-427)
CallFind ==
    /\ last.op = "none" /\ ~corrupt
    /\ \E q \in ConcQueries :
          last' = [op |-> "call_steps",
                   pc |-> IF cmdfunctions_ = <<>> THEN "done" ELSE "scan",
                   q |-> q, it |-> 0, end |-> Len(cmdfunctions_), begin |-> cmdfunctions_,
                   cf |-> 0, returned |-> <<>>, read |-> <<>>, ret |-> "ERROR",
                   raced |-> FALSE, freed |-> FALSE, mutated |-> FALSE]
    /\ UNCHANGED <<cmdfunctions_, corrupt>>

\* one pass of the loop of find_command (lines 427-433) on the slot at it.
\* A slot behind the present end of the vector, or storage the vector has
\* left, holds whatever the erase or the allocator left there.
FindStep ==
    /\ last.op = "call_steps" /\ last.pc = "scan" /\ ~corrupt
    /\ IF last.it = last.end
       THEN last' = [last EXCEPT !.pc = "done"]
       ELSE LET slot == last.it + 1
                gone == last.freed \/ slot > Len(cmdfunctions_)
            IN  \E found \in IF gone THEN BOOLEAN
                             ELSE {find_match(cmdfunctions_[slot], last.q.device_type,
                                              last.q.device_id, last.q.cmd, last.q.flag)} :
                   last' = [last EXCEPT
                              !.raced = @ \/ gone \/ cmdfunctions_[slot] # last.begin[slot],
                              !.it = IF found THEN @ ELSE slot,
                              !.cf = IF found THEN slot ELSE 0,
                              !.returned = IF ~found THEN <<>>
                                           ELSE IF gone THEN last.begin[slot]
                                           ELSE cmdfunctions_[slot],
                              !.pc = IF found THEN "check" ELSE "scan"]
    /\ UNCHANGED <<cmdfunctions_, corrupt>>

\* call from the permission check to the callback (lines 337-376): it reads
\* the flags and the callback behind the pointer find_command returned
CallCheck ==
    /\ last.op = "call_steps" /\ last.pc = "check" /\ ~corrupt
    /\ LET gone == last.freed \/ last.cf > Len(cmdfunctions_)
           entry == IF gone THEN last.returned ELSE cmdfunctions_[last.cf]
       IN  last' = [last EXCEPT
                      !.raced = @ \/ gone,
                      !.read = entry,
                      !.ret = IF not_authorized(entry.flags_, last.q.is_admin)
                              THEN "NOT_ALLOWED" ELSE "OK",
                      !.pc = "done"]
    /\ UNCHANGED <<cmdfunctions_, corrupt>>

\* another source registers a command while the call is under way; the
\* vector may move its entries to new storage when it grows
ConcAdd ==
    /\ last.op = "call_steps" /\ last.pc # "done" /\ ~last.mutated /\ ~corrupt
    /\ \E a \in DispatchRegs, moved \in BOOLEAN :
          LET reg == IF a.form = "value"
                     THEN add(cmdfunctions_, a.device_type, a.device_id, a.cmd, 1,
                              a.description, a.flags)
                     ELSE add_json(cmdfunctions_, a.device_type, a.cmd, 1,
                                   a.description, a.flags)
          IN  /\ reg # cmdfunctions_
              /\ Len(reg) <= MaxReg
              /\ cmdfunctions_' = reg
              /\ last' = [last EXCEPT !.mutated = TRUE, !.freed = moved]
    /\ UNCHANGED corrupt

\* another source removes a command while the call is under way
ConcEraseCommand ==
    /\ last.op = "call_steps" /\ last.pc # "done" /\ ~last.mutated /\ ~corrupt
    /\ \E device_type \in {"BOILER", "THERMOSTAT"}, flag \in {CMD_FLAG_DEFAULT, CMD_FLAG_HC} :
          /\ cmdfunctions_' = erase_command(cmdfunctions_, device_type, Name_ab, flag)
          /\ cmdfunctions_' # cmdfunctions_
          /\ last' = [last EXCEPT !.mutated = TRUE]
    /\ UNCHANGED corrupt

\* another source removes the commands of a device while the call is under way
ConcEraseDeviceCommands ==
    /\ last.op = "call_steps" /\ last.pc # "done" /\ ~last.mutated /\ ~corrupt
    /\ \E device_type \in {"BOILER", "THERMOSTAT"}, oob \in [0..MaxReg -> BOOLEAN] :
          LET st == erase_device_commands(cmdfunctions_, device_type, oob)
          IN  /\ st.reg # cmdfunctions_
              /\ cmdfunctions_' = st.reg
              /\ corrupt' = st.corrupt
              /\ last' = [last EXCEPT !.mutated = TRUE]

NextConc ==
    \/ Register
    \/ CallFind
    \/ FindStep
    \/ CallCheck
    \/ ConcAdd
    \/ ConcEraseCommand
    \/ ConcEraseDeviceCommands
    \/ Return

SpecConc == Init /\ [][NextConc]_vars

\* C19: while a call is under way, no step of its lookup reads a slot that an
\* erase of another source has removed or shifted, and the entry behind the
\* pointer the lookup returned is still the entry the lookup matched when
\* call reads its flags and invokes its callback.
C19_SerializedMutation ==
    last.op = "call_steps" =>
        /\ ~last.raced
        /\ (last.pc = "done" /\ last.cf # 0 => last.read = last.returned)

\* the members of the output of list are the tagged names of entries of the
\* device type that are not HIDDEN and have a description
ListShowsDescribed ==
    (last.op = "list" /\ last.ret /\ last.device_type \in RegTypes) =>
        \A k \in DOMAIN last.output :
            \E i \in 1..Len(cmdfunctions_) :
                /\ cmdfunctions_[i].device_type_ = last.device_type
                /\ tagged_cmd(cmdfunctions_[i].cmd_, cmdfunctions_[i].flags_) = k
                /\ cmdfunctions_[i].description_ # 0
                /\ ~has_flags(cmdfunctions_[i].flags_, HIDDEN)

\* C20: every entry of the registry that was registered without a
\* description, as a value handler or as a structured handler, has the HIDDEN
\* flag, and no member of the output of list comes from such an entry.
C20_MissingDescriptionHidden ==
    /\ \A i \in 1..Len(cmdfunctions_) :
          cmdfunctions_[i].description_ = 0 => has_flags(cmdfunctions_[i].flags_, HIDDEN)
    /\ ListShowsDescribed

---------------------------------------------------------------------------
(* Specification SpecParse: SUrlParser on bounded uris                     *)

\* the longest uri
MaxUri == 5

\* ordinary characters and the four delimiters
UriAlphabet == {Ord("a"), D1, Slash, Quest, Equals, Amp}

UrisOfLen[k \in Nat] ==
    IF k = 0 THEN {<<>>}
    ELSE {Append(u, c) : u \in UrisOfLen[k - 1], c \in UriAlphabet}

Uris == UNION {UrisOfLen[k] : k \in 0..MaxUri} \cup {nullptr}

RECURSIVE path_join(_)
\* the loop of SUrlParser::path: every folder followed by a '/'
path_join(folders) ==
    IF folders = <<>> THEN <<>>
    ELSE Head(folders) \o <<Slash>> \o path_join(Tail(folders))

\* std::string SUrlParser::path(): "/" and the folders, the last character
\* taken off again (pop_back)
path(folders) ==
    LET s == <<Slash>> \o path_join(folders)
    IN  SubSeq(s, 1, Len(s) - 1)

\* a parser is constructed and parses the uri (SUrlParser::SUrlParser)
Parse ==
    /\ last.op = "none"
    /\ \E uri \in Uris :
          \E r \in {parse([m_folders |-> <<>>, m_keysvalues |-> <<>>], uri)} :
              last' = [op |-> "parse", uri |-> uri, ok |-> r.ok, m_folders |-> r.m_folders,
                       m_keysvalues |-> r.m_keysvalues, path |-> path(r.m_folders)]
    /\ UNCHANGED <<cmdfunctions_, corrupt>>

NextParse == Parse \/ Return

SpecParse == Init /\ [][NextParse]_vars

\* the position of the first c in s, Len(s) + 1 without one
FirstOf(s, c) ==
    IF \E i \in 1..Len(s) : s[i] = c
    THEN CHOOSE i \in 1..Len(s) : s[i] = c /\ \A j \in 1..(i - 1) : s[j] # c
    ELSE Len(s) + 1

\* the part of a uri before its query section, which the first '?' opens
BeforeQuery(uri) == SubSeq(uri, 1, FirstOf(uri, Quest) - 1)

\* the query section behind the first '?', <<>> without one
QueryOf(uri) == SubSeq(uri, FirstOf(uri, Quest) + 1, Len(uri))

RECURSIVE Pieces(_, _)
\* the non-empty pieces of s between the characters c
Pieces(s, c) ==
    IF s = <<>> THEN <<>>
    ELSE LET k == FirstOf(s, c)
             rest == Pieces(SubSeq(s, k + 1, Len(s)), c)
         IN  IF k = 1 THEN rest ELSE <<SubSeq(s, 1, k - 1)>> \o rest

RECURSIVE Joined(_)
\* the segments, each with a '/' in front
Joined(segs) ==
    IF segs = <<>> THEN <<>> ELSE <<Slash>> \o Head(segs) \o Joined(Tail(segs))

\* a non-empty uri has been parsed
Parsed == last.op = "parse" /\ last.uri # nullptr /\ last.uri # <<>>

\* C21: the segments of a non-empty uri are the non-empty pieces between the
\* slashes of the part before its query section, in order; nothing in the
\* query section adds or changes a segment; and path() is '/' followed by the
\* segments joined with '/'.
C21_Segments ==
    Parsed =>
        /\ last.ok
        /\ last.m_folders = Pieces(BeforeQuery(last.uri), Slash)
        /\ last.path = (IF last.m_folders = <<>> THEN <<Slash>> ELSE Joined(last.m_folders))

\* the map after the item has been put into it: key=value gives value, a key
\* without '=' the empty string
PutItem(map, item) ==
    LET k == FirstOf(item, Equals)
    IN  Put(map, SubSeq(item, 1, k - 1), SubSeq(item, k + 1, Len(item)))

RECURSIVE PutItems(_, _)
\* the items put in order, so that the last occurrence of a key wins
PutItems(map, items) ==
    IF items = <<>> THEN map ELSE PutItems(PutItem(map, Head(items)), Tail(items))

\* a uri with a query section behind a plain path: no '=' or '&' before the
\* '?' and no '/' behind it
WithQuery ==
    /\ Parsed
    /\ FirstOf(last.uri, Quest) <= Len(last.uri)
    /\ \A i \in 1..Len(BeforeQuery(last.uri)) : BeforeQuery(last.uri)[i] \notin {Equals, Amp}
    /\ \A i \in 1..Len(QueryOf(last.uri)) : QueryOf(last.uri)[i] # Slash

\* C22: the map of a uri with a query section holds, for the items between
\* the '&' of the query, each key with the value of its last occurrence; an
\* empty item or a trailing '&' changes nothing, and an empty query gives the
\* empty map.
C22_QueryMap ==
    WithQuery => last.m_keysvalues = PutItems(<<>>, Pieces(QueryOf(last.uri), Amp))

\* the invocations of callbacks made during the request, over all its calls
RECURSIVE HandlersOf(_)
HandlersOf(calls) ==
    IF calls = <<>> THEN <<>> ELSE Head(calls).handlers \o HandlersOf(Tail(calls))

\* C23: during a request made with is_admin = false no callback of an entry
\* with ADMIN_ONLY is invoked, neither by the final call nor by the query of
\* an indirect value.
C23_NoEscalation ==
    (last.op = "process" /\ ~last.is_admin) =>
        \A i \in 1..Len(HandlersOf(last.calls)) :
            ~has_flags(HandlersOf(last.calls)[i].entry.flags_, ADMIN_ONLY)

\* the same for the final call alone: the call made with the caller's is_admin
FinalCallNoEscalation ==
    (last.op = "process" /\ ~last.is_admin /\ last.calls # <<>>) =>
        LET c == last.calls[Len(last.calls)]
        IN  (~Indirect \/ Len(last.calls) = 2) =>
                \A i \in 1..Len(c.handlers) : ~has_flags(c.handlers[i].entry.flags_, ADMIN_ONLY)

\* a call has invoked the callback of an entry
Invoked == last.op = "call" /\ last.handlers # <<>>

ErasePasses ==
    erase_device_passes([reg |-> last.before, corrupt |-> FALSE], Len(last.before),
                        last.device_type, last.oob)

\* C25: on a non-empty registry every pass of the scan of
\* erase_device_commands reads, and erases, at an index within [0, size) of
\* the registry as it is at that pass; the slot one past the last entry is
\* never read and the end position never erased.
C25_EraseInBounds ==
    (last.op = "erase_device_commands" /\ last.before # <<>>) =>
        \A k \in 1..Len(ErasePasses) :
            /\ ErasePasses[k].index >= 0
            /\ ErasePasses[k].index < ErasePasses[k].size

\* first folders behind the device: selector letters, a number and at most
\* one closing separator character, not empty
SelectorFolders ==
    {l \o Decimal(n) \o t :
        l \in {P_hc, P_dhw, P_id, P_ahs, P_hs, Str(<<"D", "h", "W">>), Str(<<"x">>), <<>>},
        n \in (-1)..MaxNumber,
        t \in {<<>>, <<Dot>>, <<Ord("_")>>}} \ {<<>>}

\* folders behind it: one or two characters other than '/'
NameFolders ==
    LET A == {Ord("x"), Dot, Ord("_"), D1}
    IN  {<<a>> : a \in A} \cup {<<a, b>> : a \in A, b \in A}

\* the paths "api/boiler/<f2>/<f3>" and "api/boiler/<f2>/<f3>/<f4>": three and
\* four folders behind "api"
LongPaths ==
    {Path_boiler \o <<Slash>> \o f2 \o <<Slash>> \o f3 :
        f2 \in SelectorFolders, f3 \in NameFolders}
    \cup
    {Path_boiler \o <<Slash>> \o f2 \o <<Slash>> \o f3 \o <<Slash, Ord("x")>> :
        f2 \in SelectorFolders, f3 \in {<<Ord("x")>>, <<Dot>>, <<D1>>}}

\* the boiler has a registered command and no operation is under way
BoilerServed ==
    /\ last.op = "none"
    /\ \E i \in 1..Len(cmdfunctions_) : cmdfunctions_[i].device_type_ = "BOILER"

\* C26: once the boiler has commands, some request with three or more folders
\* behind the prefix makes process return NOT_FOUND ("missing or bad
\* command"): the tag resolver returns null on the command built from its
\* folders.
C26_NotFoundReachable ==
    BoilerServed =>
        \E p \in LongPaths :
            \E ext \in ProcExts(Request(p, EmptyJson)) :
                process(cmdfunctions_, p, FALSE, EmptyJson, EmptyJson, ext).ret = "NOT_FOUND"

====
